---- MODULE Spec2Model ----
(***************************************************************************)
(* EntityDb of deno-kv-entity: entity instances stored in a Deno.Kv store  *)
(* under one key per unique property and one key per indexed property      *)
(* chain.  The store is a finite map from keys (sequences of key parts) to *)
(* entity instances; every public method of EntityDb is one action.        *)
(***************************************************************************)
EXTENDS Integers, Sequences, FiniteSets, TLC

VARIABLES
    kv,      \* the Deno.Kv store: a function from the stored keys to their values
    before,  \* the store as it was when the last completed call started
    last,    \* the last completed call: its name, arguments and outcome
    tasks    \* the call each concurrent caller has in flight, and how far it is

vars == <<kv, before, last, tasks>>

----------------------------------------------------------------------------
(* Configuration: the DbConfig the tests construct the EntityDb with.      *)

\* `undefined`, as an instance, a find result or an omitted argument
Undefined == [undefined |-> TRUE]

\* an omitted entityDefinitionId (typeof entityDefinitionId === "undefined")
NoTypeId == "<undefined>"

\* config.prefix
PREFIX == <<"test">>

ENTITY_DEFINITION_PERSON ==
    [id |-> "person",
     uniqueProperties |-> <<"ssn", "email">>,
     indexedPropertyChains |-> << <<"lastname", "firstname">>,
                                  <<"country", "zipcode">> >>]

ENTITY_DEFINITION_INVOICE ==
    [id |-> "invoice",
     uniqueProperties |-> <<"invoiceNumber">>,
     indexedPropertyChains |-> << <<"customerEmail">> >>]

\* config.entityDefinitions
entityDefinitions ==
    [person |-> ENTITY_DEFINITION_PERSON, invoice |-> ENTITY_DEFINITION_INVOICE]

TypeIds == DOMAIN entityDefinitions

\* an id a caller passes that config.entityDefinitions has no entry for
UnregisteredTypeId == "product"

----------------------------------------------------------------------------
(* Entity instances the callers pass in.                                   *)

ALICE ==
    [ssn |-> "123-45-6789", email |-> "alice@example.com",
     firstname |-> "Alice", lastname |-> "Smith",
     country |-> "US", zipcode |-> "12345"]

BOB ==
    [ssn |-> "987-65-4321", email |-> "bob@example.com",
     firstname |-> "Bob", lastname |-> "Jones",
     country |-> "US", zipcode |-> "12345"]

\* ALICE after a change of an indexed property: same ssn and email
ALICE_MOVED == [ALICE EXCEPT !.zipcode = "54321"]

\* ALICE after a change of her second unique property, to the email BOB has
ALICE_BOBMAIL == [ALICE EXCEPT !.email = "bob@example.com"]

INVOICE1 == [invoiceNumber |-> "123", customerEmail |-> "alice@example.com"]
INVOICE2 == [invoiceNumber |-> "456", customerEmail |-> "alice@example.com"]
INVOICE3 == [invoiceNumber |-> "789", customerEmail |-> "bob@example.com"]

\* the instances of each entity definition that the calls are made with
Instances ==
    [person |-> {ALICE, BOB, ALICE_MOVED, ALICE_BOBMAIL},
     invoice |-> {INVOICE1, INVOICE2, INVOICE3}]

\* the values a caller may look a unique property up by
LookupValues(typeId) ==
    { r[p] : r \in Instances[typeId],
             p \in { entityDefinitions[typeId].uniqueProperties[i] :
                     i \in DOMAIN entityDefinitions[typeId].uniqueProperties } }

----------------------------------------------------------------------------
(* Deno.Kv: key order, point read, prefix scan, atomic commit.             *)

\* every string used as a key part, in ascending byte order (the order in
\* which Deno.Kv sorts string key parts)
KeyPartOrder ==
    << "123", "123-45-6789", "12345", "456", "54321", "789", "987-65-4321",
       "Alice", "Bob", "Jones", "Smith", "US",
       "alice@example.com", "bob@example.com",
       "country", "customerEmail", "email", "firstname", "invoice",
       "invoiceNumber", "lastname", "other", "person", "ssn", "test", "zipcode" >>

\* the position of each string in that order
RankOf ==
    [ part \in { KeyPartOrder[i] : i \in DOMAIN KeyPartOrder } |->
        CHOOSE i \in DOMAIN KeyPartOrder : KeyPartOrder[i] = part ]

Rank(part) == RankOf[part]

\* a sorts strictly before b: part by part, a proper prefix first
RECURSIVE KeyLess(_, _)
KeyLess(a, b) ==
    IF a = <<>> THEN b # <<>>
    ELSE IF b = <<>> THEN FALSE
    ELSE IF Head(a) = Head(b) THEN KeyLess(Tail(a), Tail(b))
    ELSE Rank(Head(a)) < Rank(Head(b))

\* list({prefix}) selects the keys that start with prefix and are longer
HasPrefix(key, prefix) ==
    /\ Len(key) > Len(prefix)
    /\ SubSeq(key, 1, Len(prefix)) = prefix

\* the keys of a set in ascending order
RECURSIVE SortKeys(_)
SortKeys(keys) ==
    IF keys = {} THEN <<>>
    ELSE LET first == CHOOSE k \in keys : \A j \in keys : j = k \/ KeyLess(k, j)
         IN  <<first>> \o SortKeys(keys \ {first})

\* connection.list({prefix}), collected by asArray: the keys in ascending order
KvList(store, prefix) ==
    SortKeys({ k \in DOMAIN store : HasPrefix(k, prefix) })

\* as KvGet, without the `?? undefined`: the store's null for a missing key
KvGet_KeepsNull(store, key) == IF key \in DOMAIN store THEN store[key] ELSE [null |-> TRUE]

\* connection.get(key), then `entry.value ?? undefined`
KvGet(store, key) == IF key \in DOMAIN store THEN store[key] ELSE Undefined

\* atomic.set(key, value) for every key of setKeys, atomic.delete(key) for
\* every key of deleteKeys, then atomic.commit(); a set replaces the value
AtomicCommit(store, setKeys, value, deleteKeys) ==
    [ k \in ((DOMAIN store) \ deleteKeys) \cup setKeys |->
        IF k \in setKeys THEN value ELSE store[k] ]

Range(seq) == { seq[i] : i \in DOMAIN seq }

EmptyStore == [ k \in {} |-> Undefined ]

----------------------------------------------------------------------------
(* Arguments of findAll: the optional propertyLookupKey.                   *)

\* propertyLookupKey omitted
NoSelector == [kind |-> "undefined", name |-> "", pairs |-> <<>>]

\* propertyLookupKey is the bare name of a property
FieldName(f) == [kind |-> "name", name |-> f, pairs |-> <<>>]

\* propertyLookupKey is a list of [property, value] pairs
Pairs(ps) == [kind |-> "pairs", name |-> "", pairs |-> ps]

\* an omitted entityInstanceUniquePropertyValue
NoValue == "<no value>"

\* isKvKeyPart(propertyLookupPairs): a string is a key part, an array is not
isKvKeyPart(propertyLookupPairs) == propertyLookupPairs.kind = "name"

\* Array.prototype.flat() of a list of pairs
RECURSIVE flat(_)
flat(pairs) ==
    IF pairs = <<>> THEN <<>> ELSE Head(pairs) \o flat(Tail(pairs))

----------------------------------------------------------------------------
(* Key composition (EntityDb.getAllKeys and the methods it calls).         *)

\* getNonUniqueKey without `...(this.config.prefix ?? [])`
getNonUniqueKey_NoPrefix(entityDefinitionId, propertyLookupPairs, entityInstanceUniquePropertyValue) ==
    (IF entityDefinitionId = NoTypeId THEN <<>> ELSE <<entityDefinitionId>>)
    \o (IF propertyLookupPairs.kind = "undefined" THEN <<>>
        ELSE IF isKvKeyPart(propertyLookupPairs)
             THEN <<propertyLookupPairs.name>>
             ELSE flat(propertyLookupPairs.pairs))
    \o (IF entityInstanceUniquePropertyValue = NoValue THEN <<>>
        ELSE <<entityInstanceUniquePropertyValue>>)

\* getNonUniqueKey without the typeof test on the id: an omitted id becomes a part
getNonUniqueKey_KeepsUndefinedId(entityDefinitionId, propertyLookupPairs, entityInstanceUniquePropertyValue) ==
    PREFIX
    \o <<entityDefinitionId>>
    \o (IF propertyLookupPairs.kind = "undefined" THEN <<>>
        ELSE IF isKvKeyPart(propertyLookupPairs)
             THEN <<propertyLookupPairs.name>>
             ELSE flat(propertyLookupPairs.pairs))
    \o (IF entityInstanceUniquePropertyValue = NoValue THEN <<>>
        ELSE <<entityInstanceUniquePropertyValue>>)

getNonUniqueKey(entityDefinitionId, propertyLookupPairs, entityInstanceUniquePropertyValue) ==
    PREFIX
    \o (IF entityDefinitionId = NoTypeId THEN <<>> ELSE <<entityDefinitionId>>)
    \o (IF propertyLookupPairs.kind = "undefined" THEN <<>>
        ELSE IF isKvKeyPart(propertyLookupPairs)
             THEN <<propertyLookupPairs.name>>
             ELSE flat(propertyLookupPairs.pairs))
    \o (IF entityInstanceUniquePropertyValue = NoValue THEN <<>>
        ELSE <<entityInstanceUniquePropertyValue>>)

\* as getNonUniqueKeys, the key of the first indexed property chain only
getNonUniqueKeys_FirstChainOnly(entityDefinitionId, entityInstance) ==
    LET entityDefinition == entityDefinitions[entityDefinitionId]
        indexedPropertyChain == entityDefinition.indexedPropertyChains[1]
        propertyLookupPairs ==
            [ i \in DOMAIN indexedPropertyChain |->
                << indexedPropertyChain[i], entityInstance[indexedPropertyChain[i]] >> ]
    IN  << getNonUniqueKey(entityDefinitionId, Pairs(propertyLookupPairs),
                           entityInstance[entityDefinition.uniqueProperties[1]]) >>

\* getNonUniqueKeys that does not append the value of uniqueProperties[0]
getNonUniqueKeys_NoPrimaryValue(entityDefinitionId, entityInstance) ==
    LET indexedPropertyChains ==
            entityDefinitions[entityDefinitionId].indexedPropertyChains
        propertyLookupPairs(indexedPropertyChain) ==
            [ i \in DOMAIN indexedPropertyChain |->
                << indexedPropertyChain[i],
                   entityInstance[indexedPropertyChain[i]] >> ]
    IN  [ c \in DOMAIN indexedPropertyChains |->
            getNonUniqueKey(
                entityDefinitionId,
                Pairs(propertyLookupPairs(indexedPropertyChains[c])),
                NoValue) ]

getNonUniqueKeys(entityDefinitionId, entityInstance) ==
    LET entityDefinition == entityDefinitions[entityDefinitionId]
        indexedPropertyChains == entityDefinition.indexedPropertyChains
        propertyLookupPairs(indexedPropertyChain) ==
            [ i \in DOMAIN indexedPropertyChain |->
                << indexedPropertyChain[i],
                   entityInstance[indexedPropertyChain[i]] >> ]
    IN  [ c \in DOMAIN indexedPropertyChains |->
            getNonUniqueKey(
                entityDefinitionId,
                Pairs(propertyLookupPairs(indexedPropertyChains[c])),
                entityInstance[entityDefinition.uniqueProperties[1]]) ]

\* getUniqueKey that names the first unique property whatever name it is given
getUniqueKey_IgnoresName(entityDefinitionId, uniquePropertyName, uniquePropertyValue) ==
    PREFIX \o << entityDefinitionId,
                 entityDefinitions[entityDefinitionId].uniqueProperties[1],
                 uniquePropertyValue >>

getUniqueKey(entityDefinitionId, uniquePropertyName, uniquePropertyValue) ==
    PREFIX \o <<entityDefinitionId, uniquePropertyName, uniquePropertyValue>>

\* getUniqueKeys that reads the value of uniqueProperties[0] for every key
\* `entity.uniqueProperties` where config.entityDefinitions has no entry for
\* the id: entity is undefined and reading its property throws a TypeError
getUniqueKeysThrows(entityDefinitionId) ==
    entityDefinitionId \notin DOMAIN entityDefinitions

getUniqueKeys_FirstValueOnly(entityDefinitionId, entityInstance) ==
    LET entity == entityDefinitions[entityDefinitionId]
    IN  [ i \in DOMAIN entity.uniqueProperties |->
            getUniqueKey(entityDefinitionId,
                         entity.uniqueProperties[i],
                         entityInstance[entity.uniqueProperties[1]]) ]

getUniqueKeys(entityDefinitionId, entityInstance) ==
    LET entity == entityDefinitions[entityDefinitionId]
    IN  [ i \in DOMAIN entity.uniqueProperties |->
            getUniqueKey(entityDefinitionId,
                         entity.uniqueProperties[i],
                         entityInstance[entity.uniqueProperties[i]]) ]

\* getAllKeys that drops the id when no instance is given
getAllKeys_NoTypeScope(entityDefinitionId, entityInstance) ==
    IF entityDefinitionId = NoTypeId \/ entityInstance = Undefined
    THEN << getNonUniqueKey(NoTypeId, NoSelector, NoValue) >>
    ELSE getUniqueKeys(entityDefinitionId, entityInstance)
         \o getNonUniqueKeys(entityDefinitionId, entityInstance)

getAllKeys(entityDefinitionId, entityInstance) ==
    IF entityDefinitionId = NoTypeId
    THEN << getNonUniqueKey(NoTypeId, NoSelector, NoValue) >>
    ELSE IF entityInstance = Undefined
    THEN << getNonUniqueKey(entityDefinitionId, NoSelector, NoValue) >>
    ELSE getUniqueKeys(entityDefinitionId, entityInstance)
         \o getNonUniqueKeys(entityDefinitionId, entityInstance)

----------------------------------------------------------------------------
(* What each method does to the store, and what it returns.                *)

\* save that also deletes the keys the replaced version, the one stored under
\* the first unique property, has and the new version has not
save_RemovesReplacedKeys(store, entityDefinitionId, entityInstance) ==
    LET primary == entityDefinitions[entityDefinitionId].uniqueProperties[1]
        old == KvGet(store, getUniqueKey(entityDefinitionId, primary,
                                         entityInstance[primary]))
        keys == Range(getAllKeys(entityDefinitionId, entityInstance))
    IN  AtomicCommit(store, keys, entityInstance,
                     IF old = Undefined THEN {}
                     ELSE Range(getAllKeys(entityDefinitionId, old)) \ keys)

\* save that writes nothing when one of the unique keys holds an instance
\* with another value of the first unique property
save_RefusesTakenUniqueValue(store, entityDefinitionId, entityInstance) ==
    LET primary == entityDefinitions[entityDefinitionId].uniqueProperties[1]
        uniqueKeys == Range(getUniqueKeys(entityDefinitionId, entityInstance))
        keys == Range(getAllKeys(entityDefinitionId, entityInstance))
    IN  IF \E k \in uniqueKeys \cap DOMAIN store :
              store[k][primary] # entityInstance[primary]
        THEN store
        ELSE AtomicCommit(store, keys, entityInstance, {})

\* save that, after setting the keys, deletes the keys of the version it
\* finds stored under the first unique property
save_DeletesOldVersionLast(store, entityDefinitionId, entityInstance) ==
    LET primary == entityDefinitions[entityDefinitionId].uniqueProperties[1]
        old == KvGet(store, getUniqueKey(entityDefinitionId, primary,
                                         entityInstance[primary]))
        written == AtomicCommit(store,
                                Range(getAllKeys(entityDefinitionId, entityInstance)),
                                entityInstance, {})
    IN  IF old = Undefined THEN written
        ELSE AtomicCommit(written, {}, Undefined,
                          Range(getAllKeys(entityDefinitionId, old)))

\* save: one atomic commit that sets every key of the instance to the instance
save(store, entityDefinitionId, entityInstance) ==
    AtomicCommit(store,
                 Range(getAllKeys(entityDefinitionId, entityInstance)),
                 entityInstance, {})

\* _clearEntity that deletes the prefixes themselves instead of scanning them
_clearEntity_DeletesPrefixKeys(store, entityId) ==
    AtomicCommit(store, {}, Undefined, Range(getAllKeys(entityId, Undefined)))

\* _clearEntity: scans every prefix of getAllKeys(entityId) and deletes the
\* keys found, in one atomic commit
_clearEntity(store, entityId) ==
    LET allKeys == getAllKeys(entityId, Undefined)
        found == UNION { Range(KvList(store, allKeys[i])) : i \in DOMAIN allKeys }
    IN  AtomicCommit(store, {}, Undefined, found)

\* find that reads the key of the first unique property whatever name it is given
find_PrimaryPropertyKey(store, entityId, uniquePropertyName, uniquePropertyValue) ==
    KvGet(store, getUniqueKey(entityId,
                              entityDefinitions[entityId].uniqueProperties[1],
                              uniquePropertyValue))

\* find: a point read of the unique key
find(store, entityId, uniquePropertyName, uniquePropertyValue) ==
    KvGet(store, getUniqueKey(entityId, uniquePropertyName, uniquePropertyValue))

\* as findAll, every instance listed once, at the first key that holds it
findAll_OncePerInstance(store, entityDefinitionId, propertyLookupKey) ==
    LET key == getNonUniqueKey(entityDefinitionId, propertyLookupKey, NoValue)
        entries == KvList(store, key)
        distinct[i \in 0..Len(entries)] ==
            IF i = 0 THEN <<>>
            ELSE IF \E j \in 1..(i - 1) : store[entries[j]] = store[entries[i]]
                 THEN distinct[i - 1]
                 ELSE Append(distinct[i - 1], store[entries[i]])
    IN  distinct[Len(entries)]

\* as findAll, the scan not scoped to the entity definition
findAll_IgnoresEntityDefinitionId(store, entityDefinitionId, propertyLookupKey) ==
    LET key == getNonUniqueKey(NoTypeId, propertyLookupKey, NoValue)
        entries == KvList(store, key)
    IN  [ i \in DOMAIN entries |-> store[entries[i]] ]

\* findAll: a prefix scan, mapped to the values, in key order
findAll(store, entityDefinitionId, propertyLookupKey) ==
    LET key == getNonUniqueKey(entityDefinitionId, propertyLookupKey, NoValue)
        entries == KvList(store, key)
    IN  [ i \in DOMAIN entries |-> store[entries[i]] ]

\* deleteEntityInstance, as section 4.3 of the specification describes it (the
\* tests call it, entity-db.ts does not define it): one atomic commit that
\* deletes every key of the instance
deleteEntityInstance(store, entityDefinitionId, entityInstance) ==
    AtomicCommit(store, {}, Undefined,
                 Range(getAllKeys(entityDefinitionId, entityInstance)))

\* delete, as section 4.3 of the specification describes it: find by the unique
\* property, then deleteEntityInstance of what was found; nothing when nothing
\* was found
delete(store, entityDefinitionId, uniquePropertyName, uniquePropertyValue) ==
    LET entityInstance ==
            find(store, entityDefinitionId, uniquePropertyName, uniquePropertyValue)
    IN  IF entityInstance = Undefined THEN store
        ELSE deleteEntityInstance(store, entityDefinitionId, entityInstance)

----------------------------------------------------------------------------
(* The calls a caller makes, one at a time, each awaited before the next.  *)

UniqueProperties(typeId) == Range(entityDefinitions[typeId].uniqueProperties)

\* the selectors findAll is called with: none, a bare property name, or the
\* pairs of a leading part of an indexed property chain with an instance's values
Selectors(typeId) ==
    LET chains == entityDefinitions[typeId].indexedPropertyChains
    IN  {NoSelector}
        \cup { FieldName(f) :
                 f \in UniqueProperties(typeId)
                       \cup UNION { Range(chains[c]) : c \in DOMAIN chains } }
        \cup UNION { { Pairs([ i \in 1..n |-> << chains[c][i], r[chains[c][i]] >> ]) :
                          n \in 1..Len(chains[c]), r \in Instances[typeId] } :
                        c \in DOMAIN chains }

\* the calls _doWithConnection makes around the callback's own store calls:
\* Deno.openKv before, connection.close() in the finally
WithConnection(storeCalls) == <<"openKv">> \o storeCalls \o <<"close">>

\* the selectors findAll is called with when the entityDefinitionId is
\* undefined: none, a bare name, or pairs
SelectorsWithoutTypeId ==
    {NoSelector, FieldName("ssn"), FieldName("person"),
     Pairs(<< <<"country", ALICE.country>> >>)}

\* the entityDefinitions an EntityDb is constructed with: the tests', one
\* whose person definition declares no unique property, and one whose entry
\* "person" holds a definition that declares the id "invoice"
DbConfigs ==
    { entityDefinitions,
      [entityDefinitions EXCEPT !.person.uniqueProperties = <<>>],
      [entityDefinitions EXCEPT !.person = ENTITY_DEFINITION_INVOICE] }

\* the record of a completed call: its arguments, what it returned or
\* whether it threw, the calls it made to Deno.Kv in their order, and what
\* the store answered to its commit
Call(op, typeId, instance, name, value, selector, found, list, threw) ==
    [op |-> op, typeId |-> typeId, instance |-> instance, name |-> name,
     value |-> value, selector |-> selector, found |-> found, list |-> list,
     threw |-> threw, storeCalls |-> <<>>, commitOk |-> TRUE,
     config |-> Undefined]

NoCall == Call("none", NoTypeId, Undefined, "", NoValue, NoSelector,
               Undefined, <<>>, FALSE)

\* the callers that may have a call in flight at the same time
Callers == {"caller1", "caller2"}

\* no Deno.Kv connection
NoConnection == 0

\* a call in flight: its arguments, the await it is at (pc), the keys it has
\* staged in its atomic operation or will scan, what it has read, the
\* connection it holds, the calls it has made to Deno.Kv and on which
\* connection, and whether it threw
Task(op, typeId, instance, name, value, selector, pc, keys, found, list) ==
    [op |-> op, typeId |-> typeId, instance |-> instance, name |-> name,
     value |-> value, selector |-> selector, pc |-> pc, keys |-> keys,
     found |-> found, list |-> list, conn |-> NoConnection,
     storeCalls |-> <<>>, threw |-> FALSE]

Idle == Task("none", NoTypeId, Undefined, "", NoValue, NoSelector, "idle",
             {}, Undefined, <<>>)

Init ==
    /\ kv = EmptyStore
    /\ before = EmptyStore
    /\ last = NoCall
    /\ tasks = [ c \in Callers |-> Idle ]

\* as SaveAnswered, an unregistered id taken for a definition without
\* properties: no key, an empty commit, no error
SaveAnswered_UnregisteredIsEmpty(typeId, r, ok) ==
    /\ kv' = IF typeId \in TypeIds /\ ok THEN save(kv, typeId, r) ELSE kv
    /\ before' = kv
    /\ UNCHANGED tasks
    /\ last' = [Call("save", typeId, r, "", NoValue, NoSelector,
                     Undefined, <<>>, FALSE)
                   EXCEPT !.storeCalls = WithConnection(<<"atomic.commit">>),
                          !.commitOk = ok]

\* save: getAllKeys throws for an unregistered id before any store call;
\* otherwise one connection and one commit, whose answer (ok: applied or
\* not) save does not look at
SaveAnswered(typeId, r, ok) ==
    LET threw == getUniqueKeysThrows(typeId)
    IN  /\ kv' = IF threw \/ ~ok THEN kv ELSE save(kv, typeId, r)
        /\ before' = kv
        /\ UNCHANGED tasks
        /\ last' = [Call("save", typeId, r, "", NoValue, NoSelector,
                         Undefined, <<>>, threw)
                       EXCEPT !.storeCalls =
                                  IF threw THEN <<>>
                                  ELSE WithConnection(<<"atomic.commit">>),
                              !.commitOk = threw \/ ok]

\* save against a store that applies the commit
Save(typeId, r) == SaveAnswered(typeId, r, TRUE)

\* as ClearEntity, without the typeof guard: an undefined id goes on to
\* _clearEntity, whose prefix is then the whole namespace
ClearEntity_NoTypeofGuard(typeId) ==
    /\ kv' = _clearEntity(kv, typeId)
    /\ before' = kv
    /\ UNCHANGED tasks
    /\ last' = [Call("clearEntity", typeId, Undefined, "", NoValue, NoSelector,
                     Undefined, <<>>, FALSE)
                   EXCEPT !.storeCalls =
                              WithConnection(<<"list", "atomic.commit">>)]

\* clearEntity throws when the id is not a string, before any store call
ClearEntity(typeId) ==
    /\ kv' = IF typeId = NoTypeId THEN kv ELSE _clearEntity(kv, typeId)
    /\ before' = kv
    /\ UNCHANGED tasks
    /\ last' = [Call("clearEntity", typeId, Undefined, "", NoValue, NoSelector,
                     Undefined, <<>>, typeId = NoTypeId)
                   EXCEPT !.storeCalls =
                              IF typeId = NoTypeId THEN <<>>
                              ELSE WithConnection(<<"list", "atomic.commit">>)]

ClearAllEntities ==
    /\ kv' = _clearEntity(kv, NoTypeId)
    /\ before' = kv
    /\ UNCHANGED tasks
    /\ last' = [Call("clearAllEntities", NoTypeId, Undefined, "", NoValue,
                     NoSelector, Undefined, <<>>, FALSE)
                   EXCEPT !.storeCalls =
                              WithConnection(<<"list", "atomic.commit">>)]

\* new EntityDb(config): the constructor keeps the config and does nothing
\* else
Construct(config) ==
    /\ kv' = kv
    /\ before' = kv
    /\ UNCHANGED tasks
    /\ last' = [Call("constructor", NoTypeId, Undefined, "", NoValue, NoSelector,
                     Undefined, <<>>, FALSE)
                   EXCEPT !.config = config]

Find(typeId, name, value) ==
    /\ kv' = kv
    /\ before' = kv
    /\ UNCHANGED tasks
    /\ last' = [Call("find", typeId, Undefined, name, value, NoSelector,
                     find(kv, typeId, name, value), <<>>, FALSE)
                   EXCEPT !.storeCalls = WithConnection(<<"get">>)]

FindAll(typeId, selector) ==
    /\ kv' = kv
    /\ before' = kv
    /\ UNCHANGED tasks
    /\ last' = [Call("findAll", typeId, Undefined, "", NoValue, selector,
                     Undefined, findAll(kv, typeId, selector), FALSE)
                   EXCEPT !.storeCalls = WithConnection(<<"list">>)]

DeleteEntityInstance(typeId, r) ==
    /\ kv' = deleteEntityInstance(kv, typeId, r)
    /\ before' = kv
    /\ UNCHANGED tasks
    /\ last' = [Call("deleteEntityInstance", typeId, r, "", NoValue, NoSelector,
                     Undefined, <<>>, FALSE)
                   EXCEPT !.storeCalls = WithConnection(<<"atomic.commit">>)]

Delete(typeId, name, value) ==
    /\ kv' = delete(kv, typeId, name, value)
    /\ before' = kv
    /\ UNCHANGED tasks
    /\ last' = [Call("delete", typeId, Undefined, name, value, NoSelector,
                     find(kv, typeId, name, value), <<>>, FALSE)
                   EXCEPT !.storeCalls =
                              WithConnection(<<"get">>)
                              \o IF find(kv, typeId, name, value) = Undefined
                                 THEN <<>>
                                 ELSE WithConnection(<<"atomic.commit">>)]

Next ==
    \/ \E typeId \in TypeIds : \E r \in Instances[typeId] : Save(typeId, r)
    \/ \E r \in Instances["invoice"] : Save(UnregisteredTypeId, r)
    \/ \E typeId \in TypeIds \cup {NoTypeId} : ClearEntity(typeId)
    \/ ClearAllEntities
    \/ \E config \in DbConfigs : Construct(config)
    \/ \E typeId \in TypeIds : \E name \in UniqueProperties(typeId) :
          \E value \in LookupValues(typeId) : Find(typeId, name, value)
    \/ \E typeId \in TypeIds : \E selector \in Selectors(typeId) :
          FindAll(typeId, selector)
    \/ \E selector \in SelectorsWithoutTypeId : FindAll(NoTypeId, selector)
    \/ \E typeId \in TypeIds : \E r \in Instances[typeId] :
          DeleteEntityInstance(typeId, r)
    \/ \E typeId \in TypeIds : \E name \in UniqueProperties(typeId) :
          \E value \in LookupValues(typeId) : Delete(typeId, name, value)

Spec == Init /\ [][Next]_vars

\* the same calls against a store whose answer to a commit may be
\* { ok: false }, the KvCommitError of Deno.AtomicOperation.commit: the
\* commit was not applied
NextCommitNotApplied ==
    \/ Next
    \/ \E typeId \in TypeIds : \E r \in Instances[typeId] :
          SaveAnswered(typeId, r, FALSE)

SpecCommitNotApplied == Init /\ [][NextCommitNotApplied]_vars

\* what another user of the same Deno.Kv store has stored: an entry under
\* another prefix and an entry under no prefix at all
FOREIGN == [ALICE EXCEPT !.firstname = "Eve"]

ForeignStore ==
    [ k \in { <<"other", "person", "ssn", ALICE.ssn>>,
              <<"person", "ssn", ALICE.ssn>> } |-> FOREIGN ]

\* the same calls on a store that is shared with that other user
InitSharedStore ==
    /\ kv = ForeignStore
    /\ before = ForeignStore
    /\ last = NoCall
    /\ tasks = [ c \in Callers |-> Idle ]

SpecSharedStore == InitSharedStore /\ [][Next]_vars

----------------------------------------------------------------------------
(* Concurrent callers: every call is a sequence of steps, one per await,   *)
(* and the steps of the callers interleave.  Each caller makes one call,   *)
(* on a store that earlier saves have filled.                              *)

\* the stores the concurrent calls start on
InitialStores ==
    { EmptyStore,
      save(EmptyStore, "person", ALICE),
      save(save(save(EmptyStore, "person", ALICE), "person", BOB),
           "invoice", INVOICE1) }

\* the persons the concurrent calls are made with
ConcurrentInstances == {ALICE, ALICE_MOVED, BOB}

\* the selectors the concurrent findAll calls are made with
ConcurrentSelectors == {NoSelector, Pairs(<< <<"country", ALICE.country>> >>)}

InitConcurrent ==
    /\ kv \in InitialStores
    /\ before = kv
    /\ last = NoCall
    /\ tasks = [ c \in Callers |-> Idle ]

\* save, up to its first await: the keys are computed, Deno.openKv is called
CallSave(c, typeId, r) ==
    /\ tasks[c].pc = "idle"
    /\ tasks' = [tasks EXCEPT ![c] =
                    Task("save", typeId, r, "", NoValue, NoSelector, "openKv",
                         Range(getAllKeys(typeId, r)), Undefined, <<>>)]
    /\ UNCHANGED <<kv, before, last>>

\* deleteEntityInstance (section 4.3 of the specification), up to its first
\* await
CallDeleteEntityInstance(c, typeId, r) ==
    /\ tasks[c].pc = "idle"
    /\ tasks' = [tasks EXCEPT ![c] =
                    Task("deleteEntityInstance", typeId, r, "", NoValue,
                         NoSelector, "openKv",
                         Range(getAllKeys(typeId, r)), Undefined, <<>>)]
    /\ UNCHANGED <<kv, before, last>>

\* clearEntity(typeId) and, with NoTypeId, clearAllEntities, up to the first
\* await of _clearEntity: the prefix is computed, nothing is staged yet
CallClear(c, typeId) ==
    /\ tasks[c].pc = "idle"
    /\ tasks' = [tasks EXCEPT ![c] =
                    Task(IF typeId = NoTypeId THEN "clearAllEntities"
                                              ELSE "clearEntity",
                         typeId, Undefined, "", NoValue, NoSelector, "openKv",
                         {}, Undefined, <<>>)]
    /\ UNCHANGED <<kv, before, last>>

CallFind(c, typeId, name, value) ==
    /\ tasks[c].pc = "idle"
    /\ tasks' = [tasks EXCEPT ![c] =
                    Task("find", typeId, Undefined, name, value, NoSelector,
                         "openKv", {}, Undefined, <<>>)]
    /\ UNCHANGED <<kv, before, last>>

CallFindAll(c, typeId, selector) ==
    /\ tasks[c].pc = "idle"
    /\ tasks' = [tasks EXCEPT ![c] =
                    Task("findAll", typeId, Undefined, "", NoValue, selector,
                         "openKv", {}, Undefined, <<>>)]
    /\ UNCHANGED <<kv, before, last>>

\* delete (section 4.3 of the specification), up to the first await of its
\* find
CallDelete(c, typeId, name, value) ==
    /\ tasks[c].pc = "idle"
    /\ tasks' = [tasks EXCEPT ![c] =
                    Task("delete", typeId, Undefined, name, value, NoSelector,
                         "openKv", {}, Undefined, <<>>)]
    /\ UNCHANGED <<kv, before, last>>

\* the connections opened so far, by any caller: Deno.openKv returns a new
\* Deno.Kv object each time it is called
Opened ==
    UNION { { tasks[c].storeCalls[i].conn :
                i \in { j \in DOMAIN tasks[c].storeCalls :
                          tasks[c].storeCalls[j].call = "openKv" } } :
            c \in Callers }

\* the connections close() has been called on
Closed ==
    UNION { { tasks[c].storeCalls[i].conn :
                i \in { j \in DOMAIN tasks[c].storeCalls :
                          tasks[c].storeCalls[j].call = "close" } } :
            c \in Callers }

\* a call made to Deno.Kv: which call, on which connection, and whether that
\* connection was open when the call was made
StoreCall(call, conn) ==
    [call |-> call, conn |-> conn, open |-> conn \in Opened \ Closed]

\* the last store call of a callback resolves or throws, the finally of
\* _doWithConnection closes the connection, and the call is over
Finish(t, call) ==
    [t EXCEPT !.storeCalls = @ \o << StoreCall(call, t.conn),
                                     StoreCall("close", t.conn) >>,
              !.conn = NoConnection,
              !.pc = "done"]

\* the record of a call that is over
Completed(t) ==
    [Call(t.op, t.typeId, t.instance, t.name, t.value, t.selector, t.found,
          t.list, t.threw)
       EXCEPT !.storeCalls = [ i \in DOMAIN t.storeCalls |-> t.storeCalls[i].call ]]

\* Deno.openKv resolves with a new connection: the callback runs up to its
\* first store call
OpenKv(c) ==
    /\ tasks[c].pc = "openKv"
    /\ LET connection == Cardinality(Opened) + 1
       IN  tasks' = [tasks EXCEPT
                ![c].conn = connection,
                ![c].storeCalls =
                    Append(@, [call |-> "openKv", conn |-> connection, open |-> TRUE]),
                ![c].pc =
                    CASE tasks[c].op \in {"save", "deleteEntityInstance"} -> "commit"
                      [] tasks[c].op \in {"clearEntity", "clearAllEntities"} -> "list"
                      [] tasks[c].op = "findAll" -> "list"
                      [] tasks[c].op = "find" -> "get"
                      [] tasks[c].op = "delete" ->
                            IF tasks[c].instance = Undefined THEN "get"
                                                             ELSE "commit"]
    /\ UNCHANGED <<kv, before, last>>

\* connection.get resolves and the connection is closed.  find returns the
\* value and is over; delete goes on to deleteEntityInstance of what it
\* found, on a connection of its own, or is over when it found nothing
Get(c) ==
    /\ tasks[c].pc = "get"
    /\ LET t == tasks[c]
           entityInstance == find(kv, t.typeId, t.name, t.value)
           returned == Finish([t EXCEPT !.found = entityInstance], "get")
       IN  IF t.op = "find" \/ entityInstance = Undefined
           THEN /\ tasks' = [tasks EXCEPT ![c] = returned]
                /\ last' = Completed(returned)
           ELSE /\ tasks' = [tasks EXCEPT ![c] =
                               [returned EXCEPT
                                  !.instance = entityInstance,
                                  !.keys = Range(getAllKeys(t.typeId, entityInstance)),
                                  !.pc = "openKv"]]
                /\ last' = last
    /\ UNCHANGED <<kv, before>>

\* connection.list resolves.  findAll returns the values and is over;
\* _clearEntity stages a delete of every key the scan returned
List(c) ==
    /\ tasks[c].pc = "list"
    /\ LET t == tasks[c]
           allKeys == getAllKeys(t.typeId, Undefined)
           returned ==
               Finish([t EXCEPT !.list = findAll(kv, t.typeId, t.selector)], "list")
       IN  IF t.op = "findAll"
           THEN /\ tasks' = [tasks EXCEPT ![c] = returned]
                /\ last' = Completed(returned)
           ELSE /\ tasks' = [tasks EXCEPT ![c] =
                               [t EXCEPT
                                  !.keys = UNION { Range(KvList(kv, allKeys[i])) :
                                                     i \in DOMAIN allKeys },
                                  !.storeCalls = Append(@, StoreCall("list", t.conn)),
                                  !.pc = "commit"]]
                /\ last' = last
    /\ UNCHANGED <<kv, before>>

\* as Commit, the staged keys written or deleted one store call at a time
Commit_KeyByKey(c) ==
    /\ tasks[c].pc = "commit"
    /\ IF tasks[c].keys = {}
       THEN /\ kv' = kv
            /\ tasks' = [tasks EXCEPT ![c] = Finish(tasks[c], "atomic.commit")]
            /\ last' = Completed(Finish(tasks[c], "atomic.commit"))
       ELSE \E k \in tasks[c].keys :
              /\ kv' = IF tasks[c].op = "save"
                       THEN AtomicCommit(kv, {k}, tasks[c].instance, {})
                       ELSE AtomicCommit(kv, {}, Undefined, {k})
              /\ IF tasks[c].keys = {k}
                 THEN /\ tasks' = [tasks EXCEPT ![c] =
                                     Finish(tasks[c], "atomic.commit")]
                      /\ last' = Completed(Finish(tasks[c], "atomic.commit"))
                 ELSE /\ tasks' = [tasks EXCEPT ![c].keys = @ \ {k}]
                      /\ last' = last
    /\ UNCHANGED before

\* atomic.commit() is applied and resolves; the connection is closed and the
\* call is over
Commit(c) ==
    /\ tasks[c].pc = "commit"
    /\ kv' = IF tasks[c].op = "save"
             THEN AtomicCommit(kv, tasks[c].keys, tasks[c].instance, {})
             ELSE AtomicCommit(kv, {}, Undefined, tasks[c].keys)
    /\ tasks' = [tasks EXCEPT ![c] = Finish(tasks[c], "atomic.commit")]
    /\ last' = Completed(Finish(tasks[c], "atomic.commit"))
    /\ UNCHANGED before

\* the call a caller awaits at each pc
AwaitedCall(pc) ==
    CASE pc = "get" -> "get" [] pc = "list" -> "list" [] pc = "commit" -> "atomic.commit"

\* as StoreCallThrows, without the finally: the connection is left open
StoreCallThrows_NoFinally(c) ==
    /\ tasks[c].pc \in {"get", "list", "commit"}
    /\ LET t == [tasks[c] EXCEPT
                   !.storeCalls = Append(@, StoreCall(AwaitedCall(tasks[c].pc),
                                                      tasks[c].conn)),
                   !.threw = TRUE,
                   !.pc = "done"]
       IN  /\ tasks' = [tasks EXCEPT ![c] = t]
           /\ last' = Completed(t)
    /\ UNCHANGED <<kv, before>>

\* the store call a callback awaits throws (the store cannot be reached):
\* nothing is read or applied, the finally of _doWithConnection closes the
\* connection and the call rejects
StoreCallThrows(c) ==
    /\ tasks[c].pc \in {"get", "list", "commit"}
    /\ LET t == Finish([tasks[c] EXCEPT !.threw = TRUE], AwaitedCall(tasks[c].pc))
       IN  /\ tasks' = [tasks EXCEPT ![c] = t]
           /\ last' = Completed(t)
    /\ UNCHANGED <<kv, before>>

NextConcurrent ==
    \/ \E c \in Callers : \E r \in ConcurrentInstances : CallSave(c, "person", r)
    \/ \E c \in Callers : CallDeleteEntityInstance(c, "person", ALICE)
    \/ \E c \in Callers : \E typeId \in {"person", NoTypeId} : CallClear(c, typeId)
    \/ \E c \in Callers : \E name \in UniqueProperties("person") :
          CallFind(c, "person", name, ALICE[name])
    \/ \E c \in Callers : \E selector \in ConcurrentSelectors :
          CallFindAll(c, "person", selector)
    \/ \E c \in Callers : CallDelete(c, "person", "ssn", ALICE.ssn)
    \/ \E c \in Callers : OpenKv(c)
    \/ \E c \in Callers : Get(c)
    \/ \E c \in Callers : List(c)
    \/ \E c \in Callers : Commit(c)
    \/ \E c \in Callers : StoreCallThrows(c)

SpecConcurrent == InitConcurrent /\ [][NextConcurrent]_vars

----------------------------------------------------------------------------
(* Vocabulary of the properties.                                           *)

UniquePropertiesOf(typeId) == entityDefinitions[typeId].uniqueProperties
ChainsOf(typeId) == entityDefinitions[typeId].indexedPropertyChains

\* the number of keys one instance of the type is stored under
FanOut(typeId) == Len(UniquePropertiesOf(typeId)) + Len(ChainsOf(typeId))

\* [prefix..., typeId, uf, value], written out
UniqueKeyOf(typeId, uf, value) == PREFIX \o <<typeId, uf, value>>

\* [prefix..., typeId, f1, r[f1], ..., fn, r[fn], r[uniqueProperties[0]]], written out
IndexedKeyOf(typeId, chain, r) ==
    PREFIX \o <<typeId>>
    \o [ j \in 1..(2 * Len(chain)) |->
           IF j % 2 = 1 THEN chain[(j + 1) \div 2] ELSE r[chain[j \div 2]] ]
    \o << r[UniquePropertiesOf(typeId)[1]] >>

\* the keys an instance of the type is saved under, written out
KeysOfInstance(typeId, r) ==
    { UniqueKeyOf(typeId, UniquePropertiesOf(typeId)[i],
                  r[UniquePropertiesOf(typeId)[i]]) :
        i \in DOMAIN UniquePropertiesOf(typeId) }
    \cup { IndexedKeyOf(typeId, ChainsOf(typeId)[c], r) :
             c \in DOMAIN ChainsOf(typeId) }

\* the key's leading parts are the configured prefix
StartsWithPrefix(key) ==
    /\ Len(key) >= Len(PREFIX)
    /\ SubSeq(key, 1, Len(PREFIX)) = PREFIX

\* the key's leading parts are [prefix..., typeId]
UnderType(key, typeId) ==
    /\ Len(key) >= Len(PREFIX) + 1
    /\ SubSeq(key, 1, Len(PREFIX) + 1) = PREFIX \o <<typeId>>

\* the keys of a store at which the instance r is the value
KeysHolding(store, r) == { k \in DOMAIN store : store[k] = r }

\* the instances that are the value of some key of the type
StoredInstances(store, typeId) ==
    { store[k] : k \in { j \in DOMAIN store : UnderType(j, typeId) } }

\* the records of the type as find returns them by their first unique property
SavedRecords(store, typeId) ==
    { r \in Instances[typeId] :
        find(store, typeId, UniquePropertiesOf(typeId)[1],
             r[UniquePropertiesOf(typeId)[1]]) = r }

\* every call of findAll the model makes: <<typeId, selector>>
AllFindAllCalls ==
    { <<NoTypeId, selector>> : selector \in SelectorsWithoutTypeId }
    \cup UNION { { <<typeId, selector>> : selector \in Selectors(typeId) } :
                 typeId \in TypeIds }

----------------------------------------------------------------------------
(* C1: right after save(T, r) has completed, find(T, uf, r[uf]) returns r, *)
(* for every unique property uf of T.                                      *)
C1_RoundTrip ==
    (last.op = "save" /\ ~last.threw) =>
        \A i \in DOMAIN UniquePropertiesOf(last.typeId) :
            LET uf == UniquePropertiesOf(last.typeId)[i]
            IN  find(kv, last.typeId, uf, last.instance[uf]) = last.instance

\* a person saved over a store that held another version of the same person
C1_Witness ==
    /\ last.op = "save"
    /\ last.instance = ALICE_BOBMAIL
    /\ find(before, "person", "ssn", ALICE.ssn) = ALICE
    /\ find(kv, "person", "email", BOB.email) = ALICE_BOBMAIL
    /\ find(kv, "person", "ssn", ALICE.ssn) = ALICE_BOBMAIL

(* C2: after save(T, r) on an empty store the store holds exactly          *)
(* |uniqueProperties| + |indexedPropertyChains| entries, all with value r: *)
(* one unique key per unique property and one indexed key per chain, and   *)
(* no other key.                                                           *)
C2_KeyFanOut ==
    (last.op = "save" /\ ~last.threw /\ before = EmptyStore) =>
        LET T == last.typeId
            r == last.instance
            expected ==
                { UniqueKeyOf(T, UniquePropertiesOf(T)[i], r[UniquePropertiesOf(T)[i]]) :
                    i \in DOMAIN UniquePropertiesOf(T) }
                \cup { IndexedKeyOf(T, ChainsOf(T)[c], r) : c \in DOMAIN ChainsOf(T) }
        IN  /\ DOMAIN kv = expected
            /\ Cardinality(DOMAIN kv) = FanOut(T)
            /\ \A k \in DOMAIN kv : kv[k] = r

\* ALICE saved to the empty store: four keys
C2_Witness ==
    /\ last.op = "save"
    /\ before = EmptyStore
    /\ last.instance = ALICE
    /\ Cardinality(DOMAIN kv) = 4

(* C3: in every reachable state every stored instance is the value of      *)
(* exactly |uniqueProperties| + |indexedPropertyChains| keys.              *)
C3_EveryInstanceUnderAllItsKeys ==
    \A typeId \in TypeIds :
        \A r \in StoredInstances(kv, typeId) :
            Cardinality(KeysHolding(kv, r)) = FanOut(typeId)

(* C4: after delete(T, uf, v) of an instance stored at the unique key, no  *)
(* key that held that instance is left: find by each of its unique         *)
(* properties returns undefined and no findAll result contains it.         *)
C4_DeleteCompleteness ==
    (/\ last.op = "delete"
     /\ UniqueKeyOf(last.typeId, last.name, last.value) \in DOMAIN before) =>
        LET T == last.typeId
            r == before[UniqueKeyOf(T, last.name, last.value)]
        IN  /\ KeysHolding(before, r) \cap DOMAIN kv = {}
            /\ \A i \in DOMAIN UniquePropertiesOf(T) :
                 find(kv, T, UniquePropertiesOf(T)[i],
                      r[UniquePropertiesOf(T)[i]]) = Undefined
            /\ \A call \in AllFindAllCalls :
                 \A i \in DOMAIN findAll(kv, call[1], call[2]) :
                     findAll(kv, call[1], call[2])[i] # r

\* a person deleted by email while other records, and a stale copy of an
\* older version of the same person, stay in the store
C4_Witness ==
    /\ last.op = "delete"
    /\ last.name = "email"
    /\ UniqueKeyOf("person", "email", last.value) \in DOMAIN before
    /\ Cardinality(KeysHolding(before, last.found)) = 4
    /\ kv # EmptyStore

(* C5: delete(T, uf, v) with no entry at [prefix..., T, uf, v] raises no   *)
(* error and leaves the keys and values of the store as they were.         *)
C5_DeleteAbsentIsNoOp ==
    (/\ last.op = "delete"
     /\ UniqueKeyOf(last.typeId, last.name, last.value) \notin DOMAIN before) =>
        /\ kv = before
        /\ ~last.threw

\* a delete by an email that is not stored, on a store that is not empty
C5_Witness ==
    /\ last.op = "delete"
    /\ last.typeId = "person"
    /\ UniqueKeyOf("person", last.name, last.value) \notin DOMAIN before
    /\ StoredInstances(before, "person") # {}
    /\ kv = before

(* C6: clearEntity(T) leaves every key of every other entity definition,   *)
(* and its value, unchanged.                                               *)
C6_ClearEntityScope ==
    (last.op = "clearEntity" /\ last.typeId \in TypeIds) =>
        \A other \in TypeIds \ {last.typeId} :
            /\ \A k \in DOMAIN before :
                 UnderType(k, other) => (k \in DOMAIN kv /\ kv[k] = before[k])
            /\ \A k \in DOMAIN kv :
                 UnderType(k, other) => k \in DOMAIN before

\* persons cleared from a store that held persons and invoices
C6_Witness ==
    /\ last.op = "clearEntity"
    /\ last.typeId = "person"
    /\ StoredInstances(before, "person") # {}
    /\ StoredInstances(before, "invoice") # {}
    /\ StoredInstances(kv, "invoice") = StoredInstances(before, "invoice")

(* C7: after clearEntity(T) no key with the leading parts [prefix..., T]   *)
(* is left, unique or indexed, stale or not.                               *)
C7_ClearEntityRemovesAll ==
    (last.op = "clearEntity" /\ last.typeId \in TypeIds) =>
        \A k \in DOMAIN kv : ~UnderType(k, last.typeId)

\* persons cleared from a store that held a stale indexed key: ALICE under
\* her old zipcode while her ssn key held ALICE_MOVED
C7_Witness ==
    /\ last.op = "clearEntity"
    /\ last.typeId = "person"
    /\ find(before, "person", "ssn", ALICE.ssn) = ALICE_MOVED
    /\ IndexedKeyOf("person", <<"country", "zipcode">>, ALICE) \in DOMAIN before
    /\ StoredInstances(kv, "person") = {}

(* C8: after clearAllEntities find returns undefined for every query and   *)
(* findAll returns the empty list for every selector, the call without     *)
(* arguments included.                                                     *)
C8_EmptyAfterClearAll ==
    last.op = "clearAllEntities" =>
        /\ \A typeId \in TypeIds :
             \A name \in UniqueProperties(typeId) :
                 \A value \in LookupValues(typeId) :
                     find(kv, typeId, name, value) = Undefined
        /\ \A call \in AllFindAllCalls : findAll(kv, call[1], call[2]) = <<>>

\* everything cleared from a store that held persons and invoices
C8_Witness ==
    /\ last.op = "clearAllEntities"
    /\ StoredInstances(before, "person") # {}
    /\ StoredInstances(before, "invoice") # {}
    /\ findAll(kv, NoTypeId, NoSelector) = <<>>

(* C9: a second save(T, r) of the identical instance leaves the keys and   *)
(* values of the store exactly as the first save left them.                *)
C9_SaveIdempotent ==
    (last.op = "save" /\ ~last.threw) =>
        save(kv, last.typeId, last.instance) = kv

\* ALICE_MOVED saved twice in a row over a store that held ALICE
C9_Witness ==
    /\ last.op = "save"
    /\ last.instance = ALICE_MOVED
    /\ KvGet(before, UniqueKeyOf("person", "ssn", ALICE.ssn)) = ALICE_MOVED
    /\ KvGet(before, IndexedKeyOf("person", <<"country", "zipcode">>, ALICE)) = ALICE
    /\ kv = before

(* C10: findAll(T, selector) with a pair for every property of an indexed  *)
(* chain returns exactly the saved records of T whose chain properties     *)
(* have the given values, each once, in ascending order of their first     *)
(* unique property.                                                        *)
C10_FindAllByChain ==
    (last.op = "findAll" /\ last.typeId \in TypeIds) =>
        \A c \in DOMAIN ChainsOf(last.typeId) :
            \A given \in Instances[last.typeId] :
                LET typeId == last.typeId
                    chain == ChainsOf(typeId)[c]
                    selector ==
                        Pairs([ i \in DOMAIN chain |-> << chain[i], given[chain[i]] >> ])
                    primary == UniquePropertiesOf(typeId)[1]
                    matching ==
                        { r \in SavedRecords(kv, typeId) :
                            \A i \in DOMAIN chain : r[chain[i]] = given[chain[i]] }
                IN  last.selector = selector =>
                        /\ Range(last.list) = matching
                        /\ Len(last.list) = Cardinality(matching)
                        /\ \A i \in 1..(Len(last.list) - 1) :
                             Rank(last.list[i][primary])
                                 < Rank(last.list[i + 1][primary])

(* C11: findAll(T, selector) with pairs for only the first k properties of *)
(* an indexed chain of n properties, k < n, returns exactly the saved      *)
(* records of T whose first k chain properties have the given values.      *)
C11_FindAllByChainPrefix ==
    (last.op = "findAll" /\ last.typeId \in TypeIds) =>
        \A c \in DOMAIN ChainsOf(last.typeId) :
            \A k \in 1..(Len(ChainsOf(last.typeId)[c]) - 1) :
                \A given \in Instances[last.typeId] :
                    LET typeId == last.typeId
                        chain == ChainsOf(typeId)[c]
                        selector ==
                            Pairs([ i \in 1..k |-> << chain[i], given[chain[i]] >> ])
                        matching ==
                            { r \in SavedRecords(kv, typeId) :
                                \A i \in 1..k : r[chain[i]] = given[chain[i]] }
                    IN  last.selector = selector => Range(last.list) = matching

(* C12: findAll(T, f) with the bare name f of a unique property of T       *)
(* returns every saved record of T exactly once, in ascending order of     *)
(* r[f], and no record of another type.                                    *)
C12_FindAllByUniqueProperty ==
    (last.op = "findAll" /\ last.typeId \in TypeIds) =>
        \A f \in UniqueProperties(last.typeId) :
            last.selector = FieldName(f) =>
                /\ Range(last.list) = SavedRecords(kv, last.typeId)
                /\ Len(last.list) = Cardinality(SavedRecords(kv, last.typeId))
                /\ \A i \in 1..(Len(last.list) - 1) :
                     Rank(last.list[i][f]) < Rank(last.list[i + 1][f])
                /\ \A i \in DOMAIN last.list :
                     last.list[i] \in Instances[last.typeId]

(* C13: findAll(T) without a selector returns every saved record of T and  *)
(* no record of another type: the set of the instances in the result is    *)
(* the set of the instances stored under the keys of T.                    *)
C13_FindAllOfType ==
    (/\ last.op = "findAll"
     /\ last.typeId \in TypeIds
     /\ last.selector = NoSelector) =>
        /\ Range(last.list) = StoredInstances(kv, last.typeId)
        /\ SavedRecords(kv, last.typeId) \subseteq Range(last.list)
        /\ \A i \in DOMAIN last.list : last.list[i] \in Instances[last.typeId]

\* all persons listed from a store that holds two persons and an invoice
C13_Witness ==
    /\ last.op = "findAll"
    /\ last.typeId = "person"
    /\ last.selector = NoSelector
    /\ SavedRecords(kv, "person") = {ALICE, BOB}
    /\ SavedRecords(kv, "invoice") # {}
    /\ Range(last.list) = {ALICE, BOB}

(* C14: find never fails because the entry is missing: it returns          *)
(* undefined when the store holds nothing at [prefix..., T, uf, v], and    *)
(* otherwise exactly the instance stored at that key.                      *)
C14_FindAbsentIsUndefined ==
    last.op = "find" =>
        LET key == UniqueKeyOf(last.typeId, last.name, last.value)
        IN  /\ ~last.threw
            /\ key \notin DOMAIN before => last.found = Undefined
            /\ key \in DOMAIN before => last.found = before[key]
            /\ kv = before

\* a find by an email nobody is stored under, on a store that holds persons
C14_Witness ==
    /\ last.op = "find"
    /\ last.typeId = "person"
    /\ last.name = "email"
    /\ UniqueKeyOf("person", "email", last.value) \notin DOMAIN before
    /\ StoredInstances(before, "person") # {}
    /\ last.found = Undefined
    /\ ~last.threw

(* C17: save(T, r) with an id T that the registry has no definition for    *)
(* fails with an error and leaves the store as it was: no key is written   *)
(* and no commit is attempted.                                             *)
C17_SaveUnregisteredType ==
    (last.op = "save" /\ last.typeId \notin TypeIds) =>
        /\ last.threw
        /\ kv = before
        /\ "atomic.commit" \notin Range(last.storeCalls)

\* an invoice saved as a "product" into a store that holds invoices
C17_Witness ==
    /\ last.op = "save"
    /\ last.typeId = UnregisteredTypeId
    /\ last.instance = INVOICE1
    /\ last.threw
    /\ StoredInstances(before, "invoice") # {}
    /\ kv = before

(* C16: when the store answers that the commit of a save was not applied,  *)
(* save fails with an error instead of completing normally, and it has     *)
(* attempted exactly one commit.                                           *)
C16_SaveSurfacesCommitFailed ==
    (last.op = "save" /\ ~last.commitOk) =>
        /\ last.threw
        /\ Cardinality({ i \in DOMAIN last.storeCalls :
                           last.storeCalls[i] = "atomic.commit" }) = 1

(* C18: findAll(undefined, selector) with a selector but no                *)
(* entityDefinitionId fails with an error and performs no scan.            *)
C18_SelectorWithoutTypeIdFails ==
    (/\ last.op = "findAll"
     /\ last.typeId = NoTypeId
     /\ last.selector # NoSelector) =>
        /\ last.threw
        /\ "list" \notin Range(last.storeCalls)

(* C19: clearEntity called with an id that is not a string (undefined)     *)
(* fails with an error before any connection is opened and leaves the      *)
(* store as it was; it never goes on to clear every entity definition.     *)
C19_ClearEntityNonStringFails ==
    (last.op = "clearEntity" /\ last.typeId = NoTypeId) =>
        /\ last.threw
        /\ last.storeCalls = <<>>
        /\ kv = before

\* clearEntity(undefined) on a store that holds persons and invoices
C19_Witness ==
    /\ last.op = "clearEntity"
    /\ last.typeId = NoTypeId
    /\ last.threw
    /\ StoredInstances(before, "person") # {}
    /\ StoredInstances(before, "invoice") # {}
    /\ kv = before

(* C20: constructing the database fails when an entity definition of the   *)
(* registry has an empty list of unique properties, and when an entry's    *)
(* key differs from the id its definition declares.                        *)
C20_ConstructorValidates ==
    (/\ last.op = "constructor"
     /\ \E key \in DOMAIN last.config :
           \/ last.config[key].uniqueProperties = <<>>
           \/ last.config[key].id # key) =>
        last.threw

C22_DeleteEntityInstanceMirrorsSave ==
    /\ last.op = "deleteEntityInstance" =>
          /\ DOMAIN kv = DOMAIN before \ KeysOfInstance(last.typeId, last.instance)
          /\ \A k \in DOMAIN kv : kv[k] = before[k]
          /\ Cardinality({ i \in DOMAIN last.storeCalls :
                             last.storeCalls[i] = "atomic.commit" }) = 1
    /\ \A typeId \in TypeIds :
          \A r \in Instances[typeId] :
              KeysOfInstance(typeId, r) \cap DOMAIN kv = {} =>
                  /\ DOMAIN save(kv, typeId, r) \ DOMAIN kv = KeysOfInstance(typeId, r)
                  /\ deleteEntityInstance(save(kv, typeId, r), typeId, r) = kv

\* ALICE, stored under her four keys next to BOB, removed by
\* deleteEntityInstance: BOB's keys stay
C22_Witness ==
    /\ last.op = "deleteEntityInstance"
    /\ last.instance = ALICE
    /\ KeysHolding(before, ALICE) = KeysOfInstance("person", ALICE)
    /\ KeysHolding(before, BOB) = KeysOfInstance("person", BOB)
    /\ KeysHolding(kv, ALICE) = {}
    /\ KeysHolding(kv, BOB) = KeysOfInstance("person", BOB)

(* C24: when save(T, r') replaces a stored r with the same values of the   *)
(* unique properties and another value of a property of an indexed chain,  *)
(* the indexed key computed from r is not removed and still holds r:       *)
(* findAll by the chain values of r still returns r, and findAll by the    *)
(* chain values of r' returns r'.                                          *)
C24_StaleIndexedKey ==
    (last.op = "save" /\ ~last.threw) =>
        LET T == last.typeId
            new == last.instance
        IN  \A old \in Instances[T] : \A c \in DOMAIN ChainsOf(T) :
                LET chain == ChainsOf(T)[c]
                    selector(r) ==
                        Pairs([ i \in DOMAIN chain |-> << chain[i], r[chain[i]] >> ])
                IN  (/\ KeysOfInstance(T, old) \subseteq KeysHolding(before, old)
                     /\ \A u \in UniqueProperties(T) : old[u] = new[u]
                     /\ \E i \in DOMAIN chain : old[chain[i]] # new[chain[i]]) =>
                        /\ IndexedKeyOf(T, chain, old) \in DOMAIN kv
                        /\ kv[IndexedKeyOf(T, chain, old)] = old
                        /\ old \in Range(findAll(kv, T, selector(old)))
                        /\ new \in Range(findAll(kv, T, selector(new)))

\* ALICE_MOVED saved over ALICE: ALICE is still listed under zipcode 12345
C24_Witness ==
    /\ last.op = "save"
    /\ last.instance = ALICE_MOVED
    /\ KeysOfInstance("person", ALICE) \subseteq KeysHolding(before, ALICE)
    /\ ALICE \in Range(findAll(kv, "person",
                               Pairs(<< <<"country", "US">>, <<"zipcode", "12345">> >>)))
    /\ find(kv, "person", "ssn", ALICE.ssn) = ALICE_MOVED

(* C26: save checks no uniqueness: with r1 stored, save(T, r2) with        *)
(* another value of the first unique property and the same value v of      *)
(* another unique property u succeeds and overwrites [prefix..., T, u, v]: *)
(* find(T, u, v) returns r2, while find by r1's first unique property and  *)
(* findAll by the values of r1's indexed chains still return r1.           *)
C26_NoUniquenessCheck ==
    (last.op = "save" /\ last.typeId \in TypeIds) =>
        LET T == last.typeId
            r2 == last.instance
            primary == UniquePropertiesOf(T)[1]
        IN  \A r1 \in Instances[T] : \A u \in UniqueProperties(T) \ {primary} :
                (/\ KeysOfInstance(T, r1) \subseteq KeysHolding(before, r1)
                 /\ r1[primary] # r2[primary]
                 /\ r1[u] = r2[u]) =>
                    /\ ~last.threw
                    /\ find(kv, T, u, r2[u]) = r2
                    /\ find(kv, T, primary, r1[primary]) = r1
                    /\ \A c \in DOMAIN ChainsOf(T) :
                         r1 \in Range(findAll(kv, T,
                                 Pairs([ i \in DOMAIN ChainsOf(T)[c] |->
                                           << ChainsOf(T)[c][i],
                                              r1[ChainsOf(T)[c][i]] >> ])))

\* ALICE_BOBMAIL saved while BOB is stored: BOB's email key now holds her
C26_Witness ==
    /\ last.op = "save"
    /\ last.instance = ALICE_BOBMAIL
    /\ KeysOfInstance("person", BOB) \subseteq KeysHolding(before, BOB)
    /\ find(kv, "person", "email", BOB.email) = ALICE_BOBMAIL
    /\ find(kv, "person", "ssn", BOB.ssn) = BOB

(* C27: when save(T, r') replaces a stored r with the same value of the    *)
(* first unique property and another value of a further unique property u, *)
(* the key [prefix..., T, u, r[u]] is not removed and still holds r:       *)
(* find(T, u, r[u]) returns r while find by the first unique property      *)
(* returns r'.                                                             *)
C27_StaleUniqueKey ==
    (last.op = "save" /\ ~last.threw) =>
        LET T == last.typeId
            new == last.instance
            primary == UniquePropertiesOf(T)[1]
        IN  \A old \in Instances[T] : \A u \in UniqueProperties(T) \ {primary} :
                (/\ KeysOfInstance(T, old) \subseteq KeysHolding(before, old)
                 /\ old[primary] = new[primary]
                 /\ old[u] # new[u]) =>
                    /\ UniqueKeyOf(T, u, old[u]) \in DOMAIN kv
                    /\ find(kv, T, u, old[u]) = old
                    /\ find(kv, T, primary, old[primary]) = new

\* ALICE_BOBMAIL saved over ALICE: the key of ALICE's old email still holds
\* ALICE
C27_Witness ==
    /\ last.op = "save"
    /\ last.instance = ALICE_BOBMAIL
    /\ KeysOfInstance("person", ALICE) \subseteq KeysHolding(before, ALICE)
    /\ find(kv, "person", "email", ALICE.email) = ALICE
    /\ find(kv, "person", "ssn", ALICE.ssn) = ALICE_BOBMAIL

(* C28: findAll(T) without a selector returns one element per key under    *)
(* [prefix..., T]; so where every stored instance of T is under its full   *)
(* set of keys, each appears |uniqueProperties| + |indexedPropertyChains|  *)
(* times in the result.                                                    *)
C28_FindAllOnePerKey ==
    (/\ last.op = "findAll"
     /\ last.typeId \in TypeIds
     /\ last.selector = NoSelector) =>
        LET T == last.typeId
            Times(r) == Cardinality({ i \in DOMAIN last.list : last.list[i] = r })
        IN  /\ Len(last.list) = Cardinality({ k \in DOMAIN kv : UnderType(k, T) })
            /\ \A r \in StoredInstances(kv, T) :
                 Times(r) = Cardinality(KeysHolding(kv, r))
            /\ (\A r \in StoredInstances(kv, T) :
                    KeysHolding(kv, r) = KeysOfInstance(T, r)) =>
                   \A r \in StoredInstances(kv, T) : Times(r) = FanOut(T)

\* the persons listed from a store that holds ALICE and BOB under four keys
\* each: eight elements
C28_Witness ==
    /\ last.op = "findAll"
    /\ last.typeId = "person"
    /\ last.selector = NoSelector
    /\ KeysHolding(kv, ALICE) = KeysOfInstance("person", ALICE)
    /\ KeysHolding(kv, BOB) = KeysOfInstance("person", BOB)
    /\ Len(last.list) = 8

(* C23: with the prefix ["test"] configured, every key a call writes or    *)
(* deletes and every key or scan prefix a call reads starts with the       *)
(* prefix; the entries of the store whose key does not start with it are   *)
(* never changed and never returned.                                       *)
C23_NamespaceIsolation ==
    /\ PREFIX # <<>>
    /\ \A k \in DOMAIN before \cup DOMAIN kv :
          (k \notin DOMAIN before \/ k \notin DOMAIN kv \/ kv[k] # before[k])
              => StartsWithPrefix(k)
    /\ \A k \in DOMAIN ForeignStore : k \in DOMAIN kv /\ kv[k] = ForeignStore[k]
    /\ last.found # FOREIGN
    /\ \A i \in DOMAIN last.list : last.list[i] # FOREIGN
    /\ \A call \in AllFindAllCalls :
          StartsWithPrefix(getNonUniqueKey(call[1], call[2], NoValue))
    /\ \A typeId \in TypeIds : \A name \in UniqueProperties(typeId) :
          \A value \in LookupValues(typeId) :
              StartsWithPrefix(getUniqueKey(typeId, name, value))

\* clearAllEntities on a shared store that held persons and invoices: only
\* the entries of the other user are left
C23_Witness ==
    /\ last.op = "clearAllEntities"
    /\ StoredInstances(before, "person") # {}
    /\ StoredInstances(before, "invoice") # {}
    /\ kv = ForeignStore
    /\ ForeignStore # EmptyStore

(* C21: every operation opens a connection of its own and that connection  *)
(* is closed exactly once on every exit path, when its store calls         *)
(* succeed and when one of them throws; no store call is made on a         *)
(* connection after it is closed, and no two operations use the same       *)
(* connection.                                                             *)
C21_ConnectionLifecycle ==
    LET Records == UNION { { <<c, i>> : i \in DOMAIN tasks[c].storeCalls } :
                           c \in Callers }
        rec(p) == tasks[p[1]].storeCalls[p[2]]
        Opens(conn) == { p \in Records : rec(p).call = "openKv" /\ rec(p).conn = conn }
        Closes(conn) == { p \in Records : rec(p).call = "close" /\ rec(p).conn = conn }
    IN  /\ \A p \in Records :
              /\ rec(p).conn # NoConnection
              /\ Cardinality(Opens(rec(p).conn)) = 1
              /\ Cardinality(Closes(rec(p).conn)) <= 1
              /\ rec(p).call # "openKv" =>
                    /\ rec(p).open
                    /\ \E q \in Opens(rec(p).conn) : q[1] = p[1] /\ q[2] < p[2]
        /\ \A c \in Callers :
              /\ tasks[c].pc \in {"get", "list", "commit"} =>
                    /\ tasks[c].conn \in Opened \ Closed
                    /\ \E q \in Opens(tasks[c].conn) : q[1] = c
              /\ tasks[c].pc = "done" =>
                    /\ tasks[c].storeCalls # <<>>
                    /\ \A i \in DOMAIN tasks[c].storeCalls :
                          \E q \in Closes(tasks[c].storeCalls[i].conn) : q[1] = c

\* a call whose store call threw is over, its connection closed, while the
\* other caller's call holds another connection, still open
C21_Witness ==
    \E c \in Callers : \E d \in Callers \ {c} :
        /\ tasks[c].pc = "done"
        /\ tasks[c].threw
        /\ tasks[c].storeCalls[Len(tasks[c].storeCalls)].call = "close"
        /\ tasks[d].pc = "commit"
        /\ tasks[d].conn \in Opened \ Closed
        /\ tasks[d].conn \notin { tasks[c].storeCalls[i].conn :
                                    i \in DOMAIN tasks[c].storeCalls }

(* C25: when two concurrent saves of instances with the same value in      *)
(* every unique property are both over, every unique key of the record     *)
(* holds the same instance, the one whose commit was applied last, under   *)
(* every interleaving.                                                     *)
C25_LastCommittedWins ==
    [][ \A c \in Callers : \A d \in Callers \ {c} :
          LET r1 == tasks'[c].instance
              r2 == tasks'[d].instance
              T == tasks'[c].typeId
          IN  (/\ tasks'[c].op = "save" /\ tasks'[d].op = "save"
               /\ tasks'[c].pc = "done" /\ tasks'[d].pc = "done"
               /\ ~tasks'[c].threw /\ ~tasks'[d].threw
               /\ tasks'[d].typeId = T
               /\ \A u \in UniqueProperties(T) : r1[u] = r2[u]) =>
                  /\ \E r \in {r1, r2} :
                        \A u \in UniqueProperties(T) :
                            /\ UniqueKeyOf(T, u, r1[u]) \in DOMAIN kv'
                            /\ kv'[UniqueKeyOf(T, u, r1[u])] = r
                  /\ tasks[c].pc = "commit" =>
                        \A u \in UniqueProperties(T) :
                            kv'[UniqueKeyOf(T, u, r1[u])] = r1
      ]_vars

\* ALICE_MOVED and ALICE saved concurrently, ALICE committed last: both
\* unique keys hold ALICE, next to the indexed key ALICE_MOVED has left
C25_Witness ==
    \E c \in Callers : \E d \in Callers \ {c} :
        /\ tasks[c].op = "save" /\ tasks[c].instance = ALICE
        /\ tasks[d].op = "save" /\ tasks[d].instance = ALICE_MOVED
        /\ tasks[c].pc = "done" /\ tasks[d].pc = "done"
        /\ ~tasks[c].threw /\ ~tasks[d].threw
        /\ last.instance = ALICE
        /\ find(kv, "person", "ssn", ALICE.ssn) = ALICE
        /\ find(kv, "person", "email", ALICE.email) = ALICE
        /\ IndexedKeyOf("person", <<"country", "zipcode">>, ALICE_MOVED) \in DOMAIN kv

(* C29: clearEntity(T) deletes exactly the keys its scan returned, in one   *)
(* commit after the scan; and when a save(T, r) runs concurrently with it, *)
(* then after both are over r is at all of its keys or at none of them,    *)
(* under every interleaving of the scan, the save's commit and the delete  *)
(* commit.                                                                 *)
C29_ClearEntitySaveRace ==
    [][ /\ \A c \in Callers :
              (/\ tasks[c].op = "clearEntity"
               /\ tasks[c].pc = "commit"
               /\ tasks'[c].pc = "done"
               /\ ~tasks'[c].threw) =>
                  /\ DOMAIN kv' = DOMAIN kv \ tasks[c].keys
                  /\ \A k \in DOMAIN kv' : kv'[k] = kv[k]
        /\ \A c \in Callers : \A d \in Callers \ {c} :
              (/\ tasks'[c].op = "clearEntity"
               /\ tasks'[d].op = "save"
               /\ tasks'[d].typeId = tasks'[c].typeId
               /\ tasks'[c].pc = "done" /\ tasks'[d].pc = "done"
               /\ ~tasks'[c].threw /\ ~tasks'[d].threw) =>
                  LET held == { k \in KeysOfInstance(tasks'[d].typeId, tasks'[d].instance) :
                                  k \in DOMAIN kv' /\ kv'[k] = tasks'[d].instance }
                  IN  \/ held = KeysOfInstance(tasks'[d].typeId, tasks'[d].instance)
                      \/ held = {}
      ]_vars

(* C30: delete(T, uf, v) is a point read and then a separate atomic delete *)
(* of the keys computed from the instance read; when a save(T, r') of the  *)
(* same unique values with another value of an indexed property commits    *)
(* between the read and the delete, then after both are over the record is *)
(* at all of its keys or at none of them.                                  *)
C30_DeleteSaveRace ==
    \A c \in Callers : \A d \in Callers \ {c} :
        (/\ tasks[c].op = "delete"
         /\ tasks[d].op = "save"
         /\ tasks[d].typeId = tasks[c].typeId
         /\ tasks[c].pc = "done" /\ tasks[d].pc = "done"
         /\ ~tasks[c].threw /\ ~tasks[d].threw
         /\ tasks[c].found # Undefined
         /\ tasks[c].found # tasks[d].instance
         /\ \A u \in UniqueProperties(tasks[c].typeId) :
               tasks[c].found[u] = tasks[d].instance[u]
         /\ last.op = "delete") =>
            \A r \in {tasks[c].found, tasks[d].instance} :
                LET held == { k \in KeysOfInstance(tasks[c].typeId, r) :
                                k \in DOMAIN kv /\ kv[k] = r }
                IN  held = KeysOfInstance(tasks[c].typeId, r) \/ held = {}

====
